---- MODULE Spec2Model ----
(***************************************************************************)
(* santerijps/tokenizer, src/index.ts: the scan engine (token_iterator),   *)
(* the matcher dispatch (match_start_of_text), the position tracker        *)
(* (get_line_and_column) and the TokenStream wrapper (next, close,         *)
(* [Symbol.iterator]).                                                     *)
(*                                                                         *)
(* A text is a sequence of one-character strings.  Offsets are 0-based as  *)
(* in the source; sequences are 1-based, so text[k] of the source is       *)
(* text[k + 1] here.                                                       *)
(***************************************************************************)
EXTENDS Integers, Sequences, FiniteSets, TLC

VARIABLES
    text,           \* token_iterator's text argument
    token_spec,     \* Object.entries(token_spec): the entries in iteration order
    i,              \* token_iterator's loop variable, the scan cursor
    match,          \* token_iterator's local `match`, live across the yield
    gstate,         \* state of the generator object held in TokenStream.iterator
    result,         \* the IteratorResult of the last this.iterator.next()
    pc,             \* where the consumer is: "idle", inside next(), inside the wrapper
    wrapper,        \* state of the generator made by TokenStream[Symbol.iterator]
    ignored_types,  \* the argument of the next() call in progress
    ret,            \* what the last TokenStream operation handed to the consumer
    op,             \* the last TokenStream operation that completed
    produced,       \* history: every token yielded by token_iterator, with its offset
    visits,         \* history: every cursor position the outer loop body ran at
    delivered,      \* history: indices into produced handed to the consumer, in order
    mark,           \* history: Len(produced) when the next() call in progress began
    ended,          \* history: the outer loop condition i < text.length was found false
    closed,         \* history: close() has been called
    tokens          \* the array returned by a tokenize(text, token_spec) call, if made

vars == <<text, token_spec, i, match, gstate, result, pc, wrapper, ignored_types,
          ret, op, produced, visits, delivered, mark, ended, closed, tokens>>

-----------------------------------------------------------------------------
(* Bounds of the model *)

MaxLen == 3
MaxSpecLen == 2
MaxTokens == 4

-----------------------------------------------------------------------------
(* Inputs *)

NL == "\n"
Chars == {"a", NL}

RECURSIVE SeqsUpTo(_, _)
SeqsUpTo(S, n) ==
    IF n = 0 THEN {<< >>}
    ELSE LET shorter == SeqsUpTo(S, n - 1)
         IN  shorter \cup {Append(s, c) : s \in {t \in shorter : Len(t) = n - 1}, c \in S}

Texts == SeqsUpTo(Chars, MaxLen)

\* type TokenMatcher = RegExp | string | TokenMatcherFunction.
\*   kind "string":   the literal arg
\*   kind "regexp":   a character class cls with quantifier quant ("1" or "+"),
\*                    e.g. Matchers.AnyCharacter /./s, Matchers.NewLine /\n/,
\*                    a word pattern /a+/
\*   kind "function": fn "empty"  is  (text) => ""
\*                    fn "const"  is  (text) => arg
Matcher(kind, arg, cls, quant, fn) ==
    [kind |-> kind, arg |-> arg, cls |-> cls, quant |-> quant, fn |-> fn]

Entries ==
    { [type |-> "lit",   matcher |-> Matcher("string",   <<"a">>,      {},         "",  "")],
      [type |-> "word",  matcher |-> Matcher("regexp",   << >>,        {"a"},      "+", "")],
      [type |-> "any",   matcher |-> Matcher("regexp",   << >>,        Chars,      "1", "")],
      [type |-> "empty", matcher |-> Matcher("function", << >>,        {},         "",  "empty")],
      [type |-> "konst", matcher |-> Matcher("function", <<"b", "b">>, {},         "",  "const")] }

Types == {e.type : e \in Entries}

\* a TokenSpecification: keys are unique, Object.entries lists them in order
TokenSpecs ==
    {s \in SeqsUpTo(Entries, MaxSpecLen) :
        \A j, k \in 1..Len(s) : j # k => s[j].type # s[k].type}

TypesOf(spec) == {spec[k].type : k \in 1..Len(spec)}

-----------------------------------------------------------------------------
(* Values *)

NoMatch == [matched |-> FALSE, value |-> << >>]
Matched(v) == [matched |-> TRUE, value |-> v]

Token(type, value, line, column) ==
    [type |-> type, value |-> value, line |-> line, column |-> column]

Undefined == Token("undefined", << >>, 0, 0)

IterResult(done, value) == [done |-> done, value |-> value]

\* what a TokenStream operation gives back to its caller
RetNone == [kind |-> "none", done |-> FALSE, tok |-> Undefined]
RetNull == [kind |-> "null", done |-> FALSE, tok |-> Undefined]
RetToken(t) == [kind |-> "token", done |-> FALSE, tok |-> t]
RetResult(r) == [kind |-> "result", done |-> r.done, tok |-> r.value]

-----------------------------------------------------------------------------
(* String primitives *)

Min(S) == CHOOSE x \in S : \A y \in S : x <= y
Max(S) == CHOOSE x \in S : \A y \in S : x >= y

\* text.slice(k)
Slice(t, k) == IF k >= Len(t) THEN << >> ELSE SubSeq(t, k + 1, Len(t))

\* text.startsWith(p)
StartsWith(t, p) == Len(p) <= Len(t) /\ SubSeq(t, 1, Len(p)) = p

\* matcher.exec(text) for a pattern without the g or y flag: the leftmost
\* match, greedy; index is 0-based
RegExpExec(m, t) ==
    LET hits == {k \in 1..Len(t) : t[k] \in m.cls}
    IN  IF hits = {} THEN [found |-> FALSE, index |-> 0, m0 |-> << >>]
        ELSE LET first == Min(hits)
                 last  == IF m.quant = "+"
                          THEN Max({e \in first..Len(t) : \A k \in first..e : t[k] \in m.cls})
                          ELSE first
             IN  [found |-> TRUE, index |-> first - 1, m0 |-> SubSeq(t, first, last)]

\* a TokenMatcherFunction applied to the remaining text
CallFunction(m, t) ==
    CASE m.fn = "empty"  -> Matched(<< >>)
      [] m.fn = "const"  -> Matched(m.arg)

-----------------------------------------------------------------------------
(* match_start_of_text *)

\* a dispatch that takes a literal as matched without looking at the text
match_start_of_text_any_literal(t, matcher) ==
    IF matcher.kind = "string"
    THEN Matched(matcher.arg)
    ELSE IF matcher.kind = "regexp"
    THEN LET m == RegExpExec(matcher, t)
         IN  IF m.found /\ m.index = 0 THEN Matched(m.m0) ELSE NoMatch
    ELSE CallFunction(matcher, t)

\* a dispatch that accepts a pattern match wherever it begins
match_start_of_text_unanchored(t, matcher) ==
    IF matcher.kind = "string"
    THEN IF StartsWith(t, matcher.arg) THEN Matched(matcher.arg) ELSE NoMatch
    ELSE IF matcher.kind = "regexp"
    THEN LET m == RegExpExec(matcher, t)
         IN  IF m.found THEN Matched(m.m0) ELSE NoMatch
    ELSE CallFunction(matcher, t)

match_start_of_text(t, matcher) ==
    IF matcher.kind = "string"
    THEN IF StartsWith(t, matcher.arg) THEN Matched(matcher.arg) ELSE NoMatch
    ELSE IF matcher.kind = "regexp"
    THEN LET m == RegExpExec(matcher, t)
         IN  IF m.found /\ m.index = 0 THEN Matched(m.m0) ELSE NoMatch
    ELSE CallFunction(matcher, t)

-----------------------------------------------------------------------------
(* get_line_and_column *)

RECURSIVE LineColumnLoop(_, _, _, _, _)
LineColumnLoop(t, index, k, line, column) ==
    IF ~(k < index) THEN <<line, column>>
    ELSE IF t[k + 1] = NL
         THEN LineColumnLoop(t, index, k + 1, line + 1, 1)
         ELSE LineColumnLoop(t, index, k + 1, line, column + 1)

\* a tracker that counts lines from 0
get_line_and_column_zero(t, index) == LineColumnLoop(t, index, 0, 0, 1)

get_line_and_column(t, index) == LineColumnLoop(t, index, 0, 1, 1)

-----------------------------------------------------------------------------
(* token_iterator *)

\* a loop that keeps the last entry that matches instead of breaking on the first
InnerLoopLast(t, spec, at, k) ==
    LET hits == {j \in k..Len(spec) : match_start_of_text(Slice(t, at), spec[j].matcher).matched}
    IN  IF hits = {} THEN 0 ELSE Max(hits)

\* the inner for loop over Object.entries(token_spec) at cursor position at:
\* the index of the entry the loop breaks on, 0 when it runs to the end
RECURSIVE InnerLoop(_, _, _, _)
InnerLoop(t, spec, at, k) ==
    IF k > Len(spec) THEN 0
    ELSE IF match_start_of_text(Slice(t, at), spec[k].matcher).matched THEN k
         ELSE InnerLoop(t, spec, at, k + 1)


\* the entry the inner loop stops at
Winner(t, spec, at) == spec[InnerLoop(t, spec, at, 1)]

\* const match = match_start_of_text(slice, matcher), for the winning entry
WinnerMatch(t, spec, at) ==
    match_start_of_text(Slice(t, at), Winner(t, spec, at).matcher).value

\* {type, value: match, line, column}
YieldedToken(t, spec, at) ==
    LET lc == get_line_and_column(t, at)
    IN  Token(Winner(t, spec, at).type, WinnerMatch(t, spec, at), lc[1], lc[2])

\* a loop that also runs its body at i = text.length
LoopConditionInclusive(t, at) == at <= Len(t)

\* the outer loop condition i < text.length
LoopCondition(t, at) == at < Len(t)

\* the cursor when the generator is resumed after a yield:
\* i += match.length - 1; break; and the outer loop's i++
\* a resumption after i = match.length - 1 in place of i += match.length - 1
AfterYieldAssign(at, m) == (Len(m) - 1) + 1

AfterYield(at, m) == (at + (Len(m) - 1)) + 1

\* this.iterator.next(): start or resume the generator body, or report done
GenNext ==
    CASE gstate = "suspendedStart" ->
            /\ gstate' = "running"
            /\ i' = 0
            /\ UNCHANGED <<match, result>>
      [] gstate = "suspendedYield" ->
            /\ gstate' = "running"
            /\ i' = AfterYield(i, match)
            /\ UNCHANGED <<match, result>>
      [] gstate = "completed" ->
            /\ result' = IterResult(TRUE, Undefined)
            /\ UNCHANGED <<gstate, i, match>>

\* a return() that leaves the generator where it is
GenReturnKeeps == UNCHANGED <<gstate, i, match, result>>

\* this.iterator.return(): the body has no try/finally, the generator completes
GenReturn ==
    /\ gstate' = "completed"
    /\ UNCHANGED <<i, match, result>>

\* the outer loop condition i < text.length is false: the generator returns
ScanEnd ==
    /\ gstate = "running"
    /\ ~LoopCondition(text, i)
    /\ gstate' = "completed"
    /\ result' = IterResult(TRUE, Undefined)
    /\ ended' = TRUE
    /\ UNCHANGED <<text, token_spec, tokens, i, match, pc, wrapper, ignored_types, ret, op,
                   produced, visits, delivered, mark, closed>>

\* a skip that loses a second character
ScanSkipTwo ==
    /\ gstate = "running"
    /\ LoopCondition(text, i)
    /\ InnerLoop(text, token_spec, i, 1) = 0
    /\ i' = i + 2
    /\ visits' = Append(visits, [at |-> i, hit |-> FALSE])
    /\ UNCHANGED <<text, token_spec, tokens, match, gstate, result, pc, wrapper, ignored_types,
                   ret, op, produced, delivered, mark, ended, closed>>

\* no entry matches at i: the inner loop runs to its end, the outer loop does i++
ScanSkip ==
    /\ gstate = "running"
    /\ LoopCondition(text, i)
    /\ InnerLoop(text, token_spec, i, 1) = 0
    /\ i' = i + 1
    /\ visits' = Append(visits, [at |-> i, hit |-> FALSE])
    /\ UNCHANGED <<text, token_spec, tokens, match, gstate, result, pc, wrapper, ignored_types,
                   ret, op, produced, delivered, mark, ended, closed>>

\* a generator that does not suspend at the yield but scans ahead
ScanYieldEager ==
    /\ gstate = "running"
    /\ LoopCondition(text, i)
    /\ InnerLoop(text, token_spec, i, 1) # 0
    /\ Len(produced) < MaxTokens
    /\ match' = WinnerMatch(text, token_spec, i)
    /\ result' = IterResult(FALSE, YieldedToken(text, token_spec, i))
    /\ gstate' = "running"
    /\ i' = AfterYield(i, WinnerMatch(text, token_spec, i))
    /\ produced' = Append(produced, [tok |-> YieldedToken(text, token_spec, i), at |-> i])
    /\ visits' = Append(visits, [at |-> i, hit |-> TRUE])
    /\ UNCHANGED <<text, token_spec, tokens, pc, wrapper, ignored_types, ret, op,
                   delivered, mark, ended, closed>>

\* an entry matches at i: the generator yields the token and suspends
ScanYield ==
    /\ gstate = "running"
    /\ LoopCondition(text, i)
    /\ InnerLoop(text, token_spec, i, 1) # 0
    /\ Len(produced) < MaxTokens
    /\ match' = WinnerMatch(text, token_spec, i)
    /\ result' = IterResult(FALSE, YieldedToken(text, token_spec, i))
    /\ gstate' = "suspendedYield"
    /\ produced' = Append(produced, [tok |-> YieldedToken(text, token_spec, i), at |-> i])
    /\ visits' = Append(visits, [at |-> i, hit |-> TRUE])
    /\ UNCHANGED <<text, token_spec, tokens, i, pc, wrapper, ignored_types, ret, op,
                   delivered, mark, ended, closed>>

-----------------------------------------------------------------------------
(* tokenize *)

NotCalled == [called |-> FALSE, value |-> << >>]
Returned(v) == [called |-> TRUE, value |-> v]

\* Array.from(iterator) on a fresh token_iterator(text, token_spec): pull until
\* done, collecting the yielded tokens.  A drain that would pass MaxTokens
\* tokens is cut and reported as not finite.
RECURSIVE ArrayFrom(_, _, _, _)
ArrayFrom(t, spec, at, acc) ==
    IF ~LoopCondition(t, at) THEN [finite |-> TRUE, value |-> acc]
    ELSE IF InnerLoop(t, spec, at, 1) = 0 THEN ArrayFrom(t, spec, at + 1, acc)
    ELSE IF Len(acc) >= MaxTokens THEN [finite |-> FALSE, value |-> acc]
    ELSE ArrayFrom(t, spec, AfterYield(at, WinnerMatch(t, spec, at)),
                   Append(acc, YieldedToken(t, spec, at)))

\* a tokenize that stops at the first character no entry matches
RECURSIVE ArrayFromStops(_, _, _, _)
ArrayFromStops(t, spec, at, acc) ==
    IF ~LoopCondition(t, at) THEN [finite |-> TRUE, value |-> acc]
    ELSE IF InnerLoop(t, spec, at, 1) = 0 THEN [finite |-> TRUE, value |-> acc]
    ELSE IF Len(acc) >= MaxTokens THEN [finite |-> FALSE, value |-> acc]
    ELSE ArrayFromStops(t, spec, AfterYield(at, WinnerMatch(t, spec, at)),
                        Append(acc, YieldedToken(t, spec, at)))

tokenize_stops(t, spec) == ArrayFromStops(t, spec, 0, << >>)

tokenize(t, spec) == ArrayFrom(t, spec, 0, << >>)

\* a tokenize(text, token_spec) call that returns
Tokenize ==
    /\ pc = "idle"
    /\ ~tokens.called
    /\ tokenize(text, token_spec).finite
    /\ tokens' = Returned(tokenize(text, token_spec).value)
    /\ UNCHANGED <<text, token_spec, i, match, gstate, result, pc, wrapper,
                   ignored_types, ret, op, produced, visits, delivered, mark,
                   ended, closed>>

-----------------------------------------------------------------------------
(* TokenStream *)

\* a filter that also ignores every type it has discarded before
IncludesSticky(ign, tok) ==
    \/ tok.type \in ign
    \/ \E k \in 1..(Len(produced) - 1) :
          /\ \A n \in 1..Len(delivered) : delivered[n] # k
          /\ produced[k].tok.type = tok.type

\* a filter that ignores nothing
IncludesNothing(ign, tok) == FALSE

\* ignored_types.includes(result.value.type)
Includes(ign, tok) == tok.type \in ign

\* next(...ignored_types): enter the while loop, first this.iterator.next()
NextCall(ign) ==
    /\ pc = "idle"
    /\ pc' = "next"
    /\ ignored_types' = ign
    /\ mark' = Len(produced)
    /\ GenNext
    /\ UNCHANGED <<text, token_spec, tokens, wrapper, ret, op, produced, visits, delivered,
                   ended, closed>>

\* if (result.done) return null
NextReturnNull ==
    /\ pc = "next"
    /\ gstate # "running"
    /\ result.done
    /\ ret' = RetNull
    /\ op' = "next"
    /\ pc' = "idle"
    /\ ignored_types' = {}
    /\ mark' = 0
    /\ UNCHANGED <<text, token_spec, tokens, i, match, gstate, result, wrapper,
                   produced, visits, delivered, ended, closed>>

\* else if (ignored_types.includes(result.value.type)) continue
NextContinue ==
    /\ pc = "next"
    /\ gstate # "running"
    /\ ~result.done
    /\ Includes(ignored_types, result.value)
    /\ GenNext
    /\ UNCHANGED <<text, token_spec, tokens, pc, wrapper, ignored_types, ret, op, produced,
                   visits, delivered, mark, ended, closed>>

\* else return result.value
NextReturnToken ==
    /\ pc = "next"
    /\ gstate # "running"
    /\ ~result.done
    /\ ~Includes(ignored_types, result.value)
    /\ ret' = RetToken(result.value)
    /\ op' = "next"
    /\ pc' = "idle"
    /\ delivered' = Append(delivered, Len(produced))
    /\ ignored_types' = {}
    /\ mark' = 0
    /\ UNCHANGED <<text, token_spec, tokens, i, match, gstate, result, wrapper,
                   produced, visits, ended, closed>>

\* close(): return this.iterator.return()
Close ==
    /\ pc = "idle"
    /\ GenReturn
    /\ ret' = RetResult(IterResult(TRUE, Undefined))
    /\ op' = "close"
    /\ closed' = TRUE
    /\ UNCHANGED <<text, token_spec, tokens, pc, wrapper, ignored_types, produced, visits,
                   delivered, mark, ended>>

\* an iteration that scans the text again from its start instead of taking
\* up the stream's own generator
ForOfStartFresh ==
    /\ pc = "idle"
    /\ wrapper = "none"
    /\ wrapper' = "running"
    /\ pc' = "iter"
    /\ gstate' = "running"
    /\ i' = 0
    /\ UNCHANGED <<text, token_spec, tokens, match, result, ignored_types, ret, op,
                   produced, visits, delivered, mark, ended, closed>>

\* for (const token of stream): stream[Symbol.iterator]() makes the wrapper
\* generator, its first next() enters for (const token of this.iterator)
ForOfStart ==
    /\ pc = "idle"
    /\ wrapper = "none"
    /\ wrapper' = "running"
    /\ pc' = "iter"
    /\ GenNext
    /\ UNCHANGED <<text, token_spec, tokens, ignored_types, ret, op, produced, visits,
                   delivered, mark, ended, closed>>

\* the wrapper's yield token: the consumer's loop body runs with the token
ForOfYield ==
    /\ pc = "iter"
    /\ gstate # "running"
    /\ ~result.done
    /\ wrapper' = "suspendedYield"
    /\ ret' = RetToken(result.value)
    /\ op' = "iter"
    /\ pc' = "idle"
    /\ delivered' = Append(delivered, Len(produced))
    /\ UNCHANGED <<text, token_spec, tokens, i, match, gstate, result, ignored_types,
                   produced, visits, mark, ended, closed>>

\* this.iterator is done: the wrapper returns, the consumer's loop ends
ForOfDone ==
    /\ pc = "iter"
    /\ gstate # "running"
    /\ result.done
    /\ wrapper' = "none"
    /\ ret' = RetNone
    /\ op' = "iterdone"
    /\ pc' = "idle"
    /\ UNCHANGED <<text, token_spec, tokens, i, match, gstate, result, ignored_types,
                   produced, visits, delivered, mark, ended, closed>>

\* the consumer's loop body ends normally: the wrapper is resumed and asks
\* this.iterator for the next token
ForOfContinue ==
    /\ pc = "idle"
    /\ wrapper = "suspendedYield"
    /\ wrapper' = "running"
    /\ pc' = "iter"
    /\ GenNext
    /\ UNCHANGED <<text, token_spec, tokens, ignored_types, ret, op, produced, visits,
                   delivered, mark, ended, closed>>

\* the consumer leaves the loop early (break): the loop calls the wrapper's
\* return(), which completes the wrapper's suspended yield abruptly, and the
\* wrapper's own for...of then calls this.iterator.return()
ForOfBreak ==
    /\ pc = "idle"
    /\ wrapper = "suspendedYield"
    /\ wrapper' = "none"
    /\ GenReturn
    /\ ret' = RetNone
    /\ op' = "break"
    /\ UNCHANGED <<text, token_spec, tokens, pc, ignored_types, produced, visits, delivered,
                   mark, ended, closed>>

-----------------------------------------------------------------------------
(* Specification *)

\* new TokenStream(text, spec): this.iterator = token_iterator(text, spec)
Init ==
    /\ text \in Texts
    /\ token_spec \in TokenSpecs
    /\ i = 0
    /\ match = << >>
    /\ gstate = "suspendedStart"
    /\ result = IterResult(FALSE, Undefined)
    /\ pc = "idle"
    /\ wrapper = "none"
    /\ ignored_types = {}
    /\ ret = RetNone
    /\ op = "none"
    /\ produced = << >>
    /\ visits = << >>
    /\ delivered = << >>
    /\ mark = 0
    /\ ended = FALSE
    /\ closed = FALSE
    /\ tokens = NotCalled

Next ==
    \/ ScanEnd
    \/ ScanSkip
    \/ ScanYield
    \/ \E ign \in SUBSET TypesOf(token_spec) : NextCall(ign)
    \/ NextReturnNull
    \/ NextContinue
    \/ NextReturnToken
    \/ Close
    \/ ForOfStart
    \/ ForOfYield
    \/ ForOfDone
    \/ ForOfContinue
    \/ ForOfBreak

Spec == Init /\ [][Next]_vars

\* The scan engine driven by plain next() calls, next to a tokenize() call on
\* the same inputs.  The generator body and the body of next() are synchronous
\* code: once entered they run on to their next yield or return.
PullNext ==
    \/ ScanEnd
    \/ ScanSkip
    \/ ScanYield
    \/ NextCall({})
    \/ NextReturnNull
    \/ NextReturnToken
    \/ Tokenize

\* What a step of the running generator body does to the cursor and to the
\* generator state: the <<gstate, i>> part of ScanEnd, ScanSkip and ScanYield.
BodyRuns ==
    /\ gstate = "running"
    /\ \/ /\ ~LoopCondition(text, i)
          /\ gstate' = "completed"
          /\ i' = i
       \/ /\ LoopCondition(text, i)
          /\ InnerLoop(text, token_spec, i, 1) = 0
          /\ gstate' = gstate
          /\ i' = i + 1
       \/ /\ LoopCondition(text, i)
          /\ InnerLoop(text, token_spec, i, 1) # 0
          /\ Len(produced) < MaxTokens
          /\ gstate' = "suspendedYield"
          /\ i' = i

PullSpec ==
    /\ Init
    /\ [][PullNext]_vars
    /\ WF_<<gstate, i>>(BodyRuns)
    /\ WF_vars(NextReturnNull \/ NextReturnToken)

TypeOK ==
    /\ text \in Texts
    /\ token_spec \in TokenSpecs
    /\ i \in 0..(MaxLen + 2)
    /\ gstate \in {"suspendedStart", "running", "suspendedYield", "completed"}
    /\ pc \in {"idle", "next", "iter"}
    /\ wrapper \in {"none", "running", "suspendedYield"}
    /\ ignored_types \subseteq Types
    /\ ret.kind \in {"none", "null", "token", "result"}
    /\ op \in {"none", "next", "close", "iter", "iterdone", "break"}
    /\ Len(produced) <= MaxTokens
    /\ mark \in 0..MaxTokens
    /\ ended \in BOOLEAN
    /\ closed \in BOOLEAN
    /\ tokens.called \in BOOLEAN


-----------------------------------------------------------------------------
(* Vocabulary of the properties *)

\* what entry k reports at cursor position at
MatchAt(k, at) == match_start_of_text(Slice(text, at), token_spec[k].matcher)

\* some entry / no entry matches at cursor position at
SomeEntryMatches(at) == \E k \in 1..Len(token_spec) : MatchAt(k, at).matched
NoEntryMatches(at) == \A k \in 1..Len(token_spec) : ~MatchAt(k, at).matched

\* the produced token p spans the character at offset q
Covers(p, q) == p.at <= q /\ q < p.at + Len(p.tok.value)

HitVisits == {v \in 1..Len(visits) : visits[v].hit}
SkipVisits == {v \in 1..Len(visits) : ~visits[v].hit}

\* a next() call returns in this step
NextReturns == pc = "next" /\ pc' = "idle"

-----------------------------------------------------------------------------
(* C1: first-match-wins.  Every visit of a cursor position where some entry *)
(* matches emits exactly one token, and every emitted token has the type    *)
(* and the value of the earliest entry, in specification order, that        *)
(* matches the remaining text at the token's offset; a later entry that     *)
(* matches, even a longer prefix, is not used.                              *)
C1_FirstMatchWins ==
    /\ [](Cardinality(HitVisits) = Len(produced))
    /\ [][ visits' # visits =>
             /\ visits' = Append(visits, [at |-> i, hit |-> SomeEntryMatches(i)])
             /\ IF SomeEntryMatches(i)
                THEN /\ Len(produced') = Len(produced) + 1
                     /\ SubSeq(produced', 1, Len(produced)) = produced
                     /\ produced'[Len(produced')].at = i
                     /\ \E k \in 1..Len(token_spec) :
                           /\ token_spec[k].type = produced'[Len(produced')].tok.type
                           /\ MatchAt(k, i) = Matched(produced'[Len(produced')].tok.value)
                           /\ \A j \in 1..(k - 1) : ~MatchAt(j, i).matched
                ELSE produced' = produced ]_vars

\* a token was emitted from an entry although a later entry matches a
\* longer prefix at the same offset
C1_Witness ==
    \E n \in 1..Len(produced) : \E j \in 1..Len(token_spec) :
       /\ token_spec[j].type # produced[n].tok.type
       /\ token_spec[j].matcher.kind = "regexp"
       /\ MatchAt(j, produced[n].at).matched
       /\ Len(MatchAt(j, produced[n].at).value) > Len(produced[n].tok.value)
       /\ Len(produced[n].tok.value) > 0


-----------------------------------------------------------------------------
(* C2: after a zero-length match has been accepted the cursor still         *)
(* advances by at least one position: when the generator is resumed after   *)
(* yielding an empty match, the cursor is at least one past the offset of   *)
(* that match.                                                              *)
C2_ZeroLengthAdvances ==
    [][(gstate = "suspendedYield" /\ gstate' = "running" /\ Len(match) = 0)
          => i' >= i + 1]_vars

-----------------------------------------------------------------------------
(* C3: at a cursor position where no entry matches the remaining text the   *)
(* scan emits no token and moves the cursor by exactly one character, and   *)
(* no token, earlier or later, spans a character that was skipped.          *)
C3_SkipOne ==
    /\ [][(gstate = "running" /\ i < Len(text) /\ NoEntryMatches(i))
             => (i' = i + 1 /\ produced' = produced /\ result' = result
                 /\ gstate' = "running")]_vars
    /\ [](\A v \in SkipVisits :
             /\ NoEntryMatches(visits[v].at)
             /\ \A n \in 1..Len(produced) : ~Covers(produced[n], visits[v].at))

\* a character was skipped and tokens were emitted before and after it
C3_Witness ==
    \E v \in SkipVisits : \E m, n \in 1..Len(produced) :
       /\ produced[m].at < visits[v].at
       /\ visits[v].at < produced[n].at


-----------------------------------------------------------------------------
(* C4: a next(ignored_types) call that returns a token returns the first    *)
(* token the underlying sequence produces during the call whose type is not *)
(* in ignored_types, every token produced before it during the call having *)
(* an ignored type; a call that returns null found the underlying sequence  *)
(* exhausted, so a call on an exhausted sequence returns null; the tokens   *)
(* handed out keep the order of the underlying sequence.                    *)
C4_NextFilters ==
    /\ [][NextReturns =>
             IF ret'.kind = "token"
             THEN /\ Len(produced) > mark
                  /\ ret'.tok = produced[Len(produced)].tok
                  /\ ret'.tok.type \notin ignored_types
                  /\ \A k \in (mark + 1)..(Len(produced) - 1) :
                        produced[k].tok.type \in ignored_types
                  /\ delivered' = Append(delivered, Len(produced))
             ELSE /\ ret'.kind = "null"
                  /\ gstate = "completed"
                  /\ \A k \in (mark + 1)..Len(produced) :
                        produced[k].tok.type \in ignored_types
                  /\ delivered' = delivered]_vars
    /\ [](\A m, n \in 1..Len(delivered) : m < n => delivered[m] < delivered[n])

\* next() has returned a token after discarding an ignored one, and an
\* earlier token had been handed out before
C4_Witness ==
    /\ pc = "idle"
    /\ op = "next"
    /\ ret.kind = "token"
    /\ Len(delivered) >= 2
    /\ delivered[Len(delivered)] > delivered[Len(delivered) - 1] + 1
    /\ ret.tok = produced[delivered[Len(delivered)]].tok

-----------------------------------------------------------------------------
(* C5: once close() has been called, in whatever state the stream was, the  *)
(* generator stays completed, the cursor does not move, no token is         *)
(* produced or handed out, and every next() call returns null.              *)
C5_ClosedAbsorbing ==
    [][closed =>
          /\ gstate' = "completed"
          /\ i' = i
          /\ produced' = produced
          /\ visits' = visits
          /\ delivered' = delivered
          /\ (NextReturns => ret'.kind = "null")]_vars

\* a partly consumed stream was closed before the end of the text and a
\* later next() has returned null
C5_Witness ==
    /\ closed
    /\ ~ended
    /\ Len(produced) >= 1
    /\ LoopCondition(text, i)
    /\ SomeEntryMatches(AfterYield(i, match))
    /\ pc = "idle"
    /\ op = "next"
    /\ ret.kind = "null"


-----------------------------------------------------------------------------
(* C6: iteration is restartable from the current position.  After the       *)
(* consumer has left a for...of loop over the stream early, the remaining   *)
(* tokens are not lost: a next() call returns null only when the scan has   *)
(* reached the end of the text, close() has been called, or no entry        *)
(* matches anywhere in the text that is left.  Stated for specifications    *)
(* whose matches are never empty, where the scan is finite.                 *)
NonEmptyMatches ==
    \A k \in 1..Len(token_spec) : \A at \in 0..Len(text) :
        MatchAt(k, at).matched => Len(MatchAt(k, at).value) > 0

TokensRemain ==
    \E q \in 0..(Len(text) - 1) :
       /\ produced # << >> => q >= AfterYield(i, match)
       /\ SomeEntryMatches(q)

C6_RestartableAfterBreak ==
    (NonEmptyMatches /\ pc = "idle" /\ op = "next" /\ ret.kind = "null")
        => (ended \/ closed \/ ~TokensRemain)

-----------------------------------------------------------------------------
(* C7: close() returns the last token the stream produced, or null if the   *)
(* end of the stream was reached (or nothing was produced).                 *)
C7_CloseReturnsLastToken ==
    op = "close" =>
        ret = IF ended \/ produced = << >>
              THEN RetNull
              ELSE RetToken(produced[Len(produced)].tok)

-----------------------------------------------------------------------------
(* C8: progress invariant.  For every specification whose matchers report   *)
(* prefixes of the remaining text, no cursor position is visited twice, and *)
(* when the scan has ended the cursor is exactly text.length and every      *)
(* character was either part of exactly one match or dropped exactly once.  *)
PrefixContract ==
    \A k \in 1..Len(token_spec) : \A at \in 0..Len(text) :
        MatchAt(k, at).matched => StartsWith(Slice(text, at), MatchAt(k, at).value)

C8_Progress ==
    PrefixContract =>
        /\ \A u, v \in 1..Len(visits) : u # v => visits[u].at # visits[v].at
        /\ ended =>
              /\ i = Len(text)
              /\ \A q \in 0..(Len(text) - 1) :
                    Cardinality({n \in 1..Len(produced) : Covers(produced[n], q)})
                       + Cardinality({v \in SkipVisits : visits[v].at = q}) = 1

-----------------------------------------------------------------------------
(* C9: tokens are produced in strictly increasing cursor-offset order, and  *)
(* the cursor never decreases.                                              *)
C9_StrictlyIncreasing ==
    /\ \A n \in 1..(Len(produced) - 1) : produced[n + 1].at > produced[n].at
    /\ \A v \in 1..(Len(visits) - 1) : visits[v + 1].at >= visits[v].at

-----------------------------------------------------------------------------
(* C10: for every offset 0 <= idx <= length, get_line_and_column gives      *)
(* line = 1 + the number of "\n" strictly before idx, and column = 1 + the  *)
(* number of characters between the last "\n" before idx and idx (idx if    *)
(* there is none); every emitted token carries this pair for the offset of  *)
(* its first character.  The text never changes, so the function is        *)
(* compared over all its offsets in the states before the scan starts.      *)
NewLinesBefore(t, idx) == {k \in 0..(idx - 1) : t[k + 1] = NL}

LineOf(t, idx) == 1 + Cardinality(NewLinesBefore(t, idx))

ColumnOf(t, idx) ==
    IF NewLinesBefore(t, idx) = {}
    THEN 1 + idx
    ELSE 1 + (idx - (Max(NewLinesBefore(t, idx)) + 1))

C10_LineColumn ==
    /\ gstate = "suspendedStart" =>
          \A idx \in 0..Len(text) :
             get_line_and_column(text, idx) = <<LineOf(text, idx), ColumnOf(text, idx)>>
    /\ \A n \in 1..Len(produced) :
          /\ produced[n].tok.line = LineOf(text, produced[n].at)
          /\ produced[n].tok.column = ColumnOf(text, produced[n].at)

\* "a\na" scanned one character at a time: tokens at (1,1), (1,2), (2,1)
C10_Witness ==
    /\ text = <<"a", NL, "a">>
    /\ Len(produced) = 3
    /\ <<produced[1].tok.line, produced[1].tok.column>> = <<1, 1>>
    /\ <<produced[2].tok.line, produced[2].tok.column>> = <<1, 2>>
    /\ <<produced[3].tok.line, produced[3].tok.column>> = <<2, 1>>
    /\ produced[2].tok.value = <<NL>>


-----------------------------------------------------------------------------
(* C11: degenerate inputs.  With an empty text no matcher is run and no     *)
(* token is produced, whatever the specification, and next() returns null;  *)
(* with an empty specification no token is produced, every character is     *)
(* dropped exactly once, in order, and the scan does reach its end.         *)
C11_Degenerate ==
    /\ [](text = << >> =>
            /\ produced = << >>
            /\ visits = << >>
            /\ (pc = "idle" /\ op = "next" => ret.kind = "null"))
    /\ [](token_spec = << >> =>
            /\ produced = << >>
            /\ \A v \in 1..Len(visits) : ~visits[v].hit /\ visits[v].at = v - 1
            /\ (pc = "idle" /\ op = "next" => ret.kind = "null")
            /\ (ended => i = Len(text) /\ Len(visits) = Len(text)))
    /\ ((token_spec = << >> /\ gstate = "running") ~> (gstate = "completed"))

\* a text of full length was scanned to its end with the empty specification,
\* and next() has returned null
C11_Witness ==
    /\ token_spec = << >>
    /\ Len(text) = MaxLen
    /\ ended
    /\ Len(visits) = Len(text)
    /\ pc = "idle"
    /\ op = "next"
    /\ ret.kind = "null"


-----------------------------------------------------------------------------
(* C12: whenever a tokenize(text, token_spec) call returns, its array is    *)
(* the sequence of the tokens that the generator yields when pulled until   *)
(* done: the tokens pulled so far are the array's prefix of that length,    *)
(* and once the generator is done they are the whole array.                 *)
ProducedTokens == [n \in 1..Len(produced) |-> produced[n].tok]

C12_TokenizeIsDrain ==
    tokens.called =>
        /\ Len(produced) <= Len(tokens.value)
        /\ ProducedTokens = SubSeq(tokens.value, 1, Len(produced))
        /\ (ended => ProducedTokens = tokens.value)

\* tokenize has returned two or more tokens for a text with a dropped
\* character, and the generator has been pulled to its end
C12_Witness ==
    /\ tokens.called
    /\ ended
    /\ Len(tokens.value) >= 2
    /\ SkipVisits # {}


-----------------------------------------------------------------------------
(* C13: filtering is stateless per call.  Whatever types earlier next()     *)
(* calls ignored, a next() call returns the token it pulls as soon as the   *)
(* token's type is not in the list of this call, and the iteration path     *)
(* hands out every token it pulls.                                          *)
Discarded == {k \in 1..Len(produced) : \A n \in 1..Len(delivered) : delivered[n] # k}

C13_StatelessFilter ==
    /\ [][(pc = "next" /\ gstate # "running" /\ ~result.done
              /\ result.value.type \notin ignored_types)
             => (pc' = "idle" /\ ret' = RetToken(result.value)
                 /\ delivered' = Append(delivered, Len(produced)))]_vars
    /\ [][(pc = "iter" /\ gstate # "running" /\ ~result.done)
             => (pc' = "idle" /\ ret' = RetToken(result.value)
                 /\ delivered' = Append(delivered, Len(produced)))]_vars

\* next() has returned a token of a type that an earlier call discarded
C13_Witness ==
    /\ pc = "idle"
    /\ op = "next"
    /\ ret.kind = "token"
    /\ ret.tok = produced[Len(produced)].tok
    /\ \E k \in Discarded : k < Len(produced) /\ produced[k].tok.type = ret.tok.type

\* the iteration path has handed out a token of a type that an earlier
\* next() call discarded
C13_WitnessIter ==
    /\ pc = "idle"
    /\ op = "iter"
    /\ ret.tok = produced[Len(produced)].tok
    /\ \E k \in Discarded : k < Len(produced) /\ produced[k].tok.type = ret.tok.type


-----------------------------------------------------------------------------
(* C14: laziness.  Before anything has been demanded from a constructed     *)
(* stream no matcher has run and no token exists; the cursor moves, a       *)
(* matcher runs or a token is produced only in a step that serves a next()  *)
(* or iteration demand; the generator suspends as soon as it has produced   *)
(* one token and is resumed only by a further pull; after close() no        *)
(* matcher runs and the cursor does not move.                               *)
Serving == pc \in {"next", "iter"}

C14_Lazy ==
    /\ []((op = "none" /\ pc = "idle" /\ wrapper = "none")
             => (gstate = "suspendedStart" /\ produced = << >> /\ visits = << >>))
    /\ [][(i' # i \/ visits' # visits \/ produced' # produced) => Serving']_vars
    /\ [][produced' # produced
             => /\ Len(produced') = Len(produced) + 1
                /\ gstate = "running"
                /\ gstate' = "suspendedYield"
                /\ visits' = Append(visits, [at |-> i, hit |-> TRUE])]_vars
    /\ [][(gstate = "suspendedYield" /\ gstate' = "running")
             => (~Serving \/ pc = "next") /\ Serving' /\ produced' = produced]_vars
    /\ [][closed => (visits' = visits /\ i' = i)]_vars

\* one token has been pulled and handed out, the consumer is idle, and the
\* text that is left, where an entry matches, has not been scanned
C14_Witness ==
    /\ pc = "idle"
    /\ gstate = "suspendedYield"
    /\ Len(produced) = 1
    /\ Len(visits) = 1
    /\ AfterYield(i, match) < Len(text)
    /\ SomeEntryMatches(AfterYield(i, match))


-----------------------------------------------------------------------------
(* C15: every emitted token's value is the exact substring of the text that *)
(* starts at the token's offset and has the value's length, for all three   *)
(* matcher variants, so no accepted match extends past the end of the text. *)
SubstringAt(p) ==
    /\ p.at + Len(p.tok.value) <= Len(text)
    /\ SubSeq(text, p.at + 1, p.at + Len(p.tok.value)) = p.tok.value

KindOf(type) ==
    token_spec[CHOOSE k \in 1..Len(token_spec) : token_spec[k].type = type].matcher.kind

C15_ExactSubstring == \A n \in 1..Len(produced) : SubstringAt(produced[n])

(* C15, as amended: a token emitted for a Literal or a Pattern entry has as *)
(* its value the exact substring of the text at its offset and does not     *)
(* extend past the end of the text; a token emitted for a Function entry    *)
(* has as its value whatever the function returned for the remaining text.  *)
C15_ExactSubstringLiteralPattern ==
    \A n \in 1..Len(produced) :
       IF KindOf(produced[n].tok.type) \in {"string", "regexp"}
       THEN SubstringAt(produced[n])
       ELSE \E k \in 1..Len(token_spec) :
               /\ token_spec[k].type = produced[n].tok.type
               /\ produced[n].tok.value
                     = CallFunction(token_spec[k].matcher, Slice(text, produced[n].at)).value

\* a pattern token of two characters, away from the start of the text
C15_Witness ==
    \E n \in 1..Len(produced) :
       /\ KindOf(produced[n].tok.type) = "regexp"
       /\ Len(produced[n].tok.value) >= 2
       /\ produced[n].at > 0

-----------------------------------------------------------------------------
(* C16: matchers are anchor-only.  A Literal matches at a position iff the  *)
(* remaining text starts with it, and then yields the literal itself; a     *)
(* Pattern matches at a position only if its earliest match in the          *)
(* remaining text starts at offset 0, and then yields that match's full     *)
(* text; a pattern whose earliest match begins later in the remaining text  *)
(* produces no token at the current position.                               *)

\* the offsets, in the whole text, at or after at where pattern m can begin
PatternStarts(m, at) == {q \in at..(Len(text) - 1) : text[q + 1] \in m.cls}

\* the text of the pattern's match that begins at offset at
PatternText(m, at) ==
    IF m.quant = "+"
    THEN SubSeq(text, at + 1,
                Max({e \in (at + 1)..Len(text) : \A q \in (at + 1)..e : text[q] \in m.cls}))
    ELSE <<text[at + 1]>>

\* entry k is anchored at offset at: what the claim lets match there
Anchored(k, at) ==
    LET m == token_spec[k].matcher
    IN  CASE m.kind = "string"   -> /\ at + Len(m.arg) <= Len(text)
                                    /\ \A q \in 1..Len(m.arg) : text[at + q] = m.arg[q]
          [] m.kind = "regexp"   -> PatternStarts(m, at) # {} /\ Min(PatternStarts(m, at)) = at
          [] m.kind = "function" -> CallFunction(m, Slice(text, at)).matched

\* what an anchored entry yields
AnchoredText(k, at) ==
    LET m == token_spec[k].matcher
    IN  CASE m.kind = "string"   -> m.arg
          [] m.kind = "regexp"   -> PatternText(m, at)
          [] m.kind = "function" -> CallFunction(m, Slice(text, at)).value

\* every outer-loop step, at its cursor position: a token is emitted iff some
\* entry is anchored there, and the token has an anchored entry's type and text
C16_AnchorOnly ==
    [][ visits' # visits =>
          LET at == visits'[Len(visits')].at
              hit == visits'[Len(visits')].hit
          IN  /\ visits' = Append(visits, [at |-> i, hit |-> produced' # produced])
              /\ hit <=> \E k \in 1..Len(token_spec) : Anchored(k, at)
              /\ hit =>
                    /\ Len(produced') = Len(produced) + 1
                    /\ produced'[Len(produced')].at = at
                    /\ \E k \in 1..Len(token_spec) :
                          /\ token_spec[k].type = produced'[Len(produced')].tok.type
                          /\ Anchored(k, at)
                          /\ produced'[Len(produced')].tok.value = AnchoredText(k, at)
                          /\ result'.value = produced'[Len(produced')].tok ]_vars

\* a position was passed without a token although a pattern of the
\* specification has a match further on, which was emitted when the cursor
\* got there
C16_Witness ==
    \E v \in 1..Len(visits) : \E n \in 1..Len(produced) : \E k \in 1..Len(token_spec) :
       /\ ~visits[v].hit
       /\ token_spec[k].matcher.kind = "regexp"
       /\ token_spec[k].type = produced[n].tok.type
       /\ PatternStarts(token_spec[k].matcher, visits[v].at) # {}
       /\ produced[n].at > visits[v].at

-----------------------------------------------------------------------------
(* C17: under any interleaving, by a single consumer, of next() calls and   *)
(* iteration steps on one TokenStream, every token of the underlying        *)
(* sequence is delivered to at most one of the two paths and never twice,   *)
(* and the tokens delivered, in delivery order, form a subsequence of       *)
(* tokenize(text, token_spec): every step that hands the consumer a token,  *)
(* on either path, hands over the token at one position of the array, and   *)
(* that position is greater than every position handed over before.  For a  *)
(* scan that does not end, the array is the first MaxTokens tokens of the   *)
(* sequence.                                                                *)
C17_DeliveredOnce ==
    [][ (delivered' # delivered \/ (ret' # ret /\ ret'.kind = "token")) =>
          LET all == tokenize(text, token_spec).value
              n   == delivered'[Len(delivered')]
          IN  /\ op' \in {"next", "iter"}
              /\ Len(delivered') = Len(delivered) + 1
              /\ SubSeq(delivered', 1, Len(delivered)) = delivered
              /\ \A d \in 1..Len(delivered) : delivered[d] < n
              /\ n \in 1..Len(all)
              /\ ret' = RetToken(all[n]) ]_vars

\* a next() call made inside the body of an iteration over the same stream
\* has returned a token, after an earlier token went to the other path and
\* another was dropped by a filter
C17_Witness ==
    /\ tokenize(text, token_spec).finite
    /\ pc = "idle"
    /\ op = "next"
    /\ ret.kind = "token"
    /\ wrapper = "suspendedYield"
    /\ Len(delivered) >= 2
    /\ Len(delivered) < Len(produced)

-----------------------------------------------------------------------------
(* C18: when every match reported by the specification's matchers is        *)
(* non-empty, scanning a text of length n terminates: the cursor strictly   *)
(* increases on every outer-loop step, at most n tokens are emitted, every  *)
(* next() call returns, and repeated next() calls eventually return null.   *)
C18_Terminates ==
    /\ [](NonEmptyMatches =>
             /\ \A v, w \in 1..Len(visits) : v < w => visits[v].at < visits[w].at
             /\ Len(visits) <= Len(text)
             /\ Len(produced) <= Len(text))
    /\ [][NonEmptyMatches /\ gstate' = "running" /\ gstate # "suspendedStart"
             => i' > i]_<<gstate, i>>
    /\ ((NonEmptyMatches /\ pc = "next") ~> (pc = "idle"))
    /\ (NonEmptyMatches =>
           ([]<>(pc = "next") => <>(pc = "idle" /\ op = "next" /\ ret.kind = "null")))

\* a text of two or more characters was scanned to its end with one token
\* per character, and next() has returned null
C18_Witness ==
    /\ NonEmptyMatches
    /\ Len(text) >= 2
    /\ Len(produced) = Len(text)
    /\ ended
    /\ pc = "idle"
    /\ op = "next"
    /\ ret.kind = "null"

====
